---- MODULE Spec2Model ----
(***************************************************************************)
(* A model of gitlab_clone_mcp_server/server.py: the request dispatcher    *)
(* make_gitlab_request, the table of tools built on it, the two git clone  *)
(* tools and the command-line entry point main.                            *)
(*                                                                         *)
(* Python values are modelled as follows.  None is the string "<None>";    *)
(* a string is falsy when it is None or "".  A text the server composes    *)
(* with an f-string is the sequence of its pieces.  An HTTP request is the *)
(* record of the arguments handed to the httpx client method.              *)
(***************************************************************************)
EXTENDS Integers, Sequences, FiniteSets, TLC

VARIABLES env, inv, last, server

vars == <<env, inv, last, server>>

None == "<None>"

Truthy(v) == v # None /\ v # ""

(* ---------------------------------------------------------------------- *)
(* Bounds and input domains                                                *)
(* ---------------------------------------------------------------------- *)

\* Largest project list a group lookup returns in the model.
MaxProjects == 2

\* Tool invocations that may be in flight; Spec runs them one at a time.
Slots == {1}

\* Values of the token argument of a tool.
TokenArgs == {None, "", "tokA"}

\* Values of the GITLAB_TOKEN entry of the request headers (None: no entry).
HeaderVals == {None, "", "tokH"}

\* Values of the GITLAB_TOKEN environment variable (None: unset).
EnvTokens == {None, "", "tokE"}

\* Values of the GITLAB_URL environment variable (None: unset).
EnvUrls == {None, "https://git.example"}

\* The other arguments of a tool (ids, names, texts), as one opaque tuple.
ArgVals == {"args1", "args2"}

\* Values of the per_page argument of list_projects, list_groups and
\* list_group_projects.
PerPageVals == {-1, 20, 100, 101, 1000}

\* The documented maximum of per_page, the second argument of min().
MaxPerPage == 100

\* The page size clone_group_repositories writes into its endpoint.
GroupPerPage == 100

\* The shapes of the ctx argument that line 16-19 of the dispatcher tell
\* apart: ctx=None, a ctx without request_context, a falsy request_context,
\* a request_context without headers, and one with a headers mapping.
Ctxs ==
    {[shape |-> s, GITLAB_TOKEN |-> None] :
        s \in {"None", "no_request_context", "request_context_falsy", "no_headers"}}
    \cup {[shape |-> "headers", GITLAB_TOKEN |-> v] : v \in HeaderVals}

\* method values handed to the dispatcher directly; the tools use only the
\* first four.
HttpVerbs == {"GET", "POST", "PUT", "DELETE"}
MethodVals == HttpVerbs \cup {"PATCH", "get"}

(* ---------------------------------------------------------------------- *)
(* The tool table: one row per @mcp.tool() function                        *)
(* ---------------------------------------------------------------------- *)

Tools ==
    {
       [name |-> "create_project", method |-> "POST", has_data |-> TRUE, err_prefix |-> "Error creating project: ", class |-> "object"],
       [name |-> "delete_project", method |-> "DELETE", has_data |-> FALSE, err_prefix |-> "Error deleting project: ", class |-> "fixed"],
       [name |-> "list_projects", method |-> "GET", has_data |-> FALSE, err_prefix |-> "Error: ", class |-> "list"],
       [name |-> "get_project_issues", method |-> "GET", has_data |-> FALSE, err_prefix |-> "Error: ", class |-> "list"],
       [name |-> "get_merge_requests", method |-> "GET", has_data |-> FALSE, err_prefix |-> "Error: ", class |-> "list"],
       [name |-> "create_issue", method |-> "POST", has_data |-> TRUE, err_prefix |-> "Error creating issue: ", class |-> "object"],
       [name |-> "get_pipelines", method |-> "GET", has_data |-> FALSE, err_prefix |-> "Error: ", class |-> "list"],
       [name |-> "get_project_branches", method |-> "GET", has_data |-> FALSE, err_prefix |-> "Error: ", class |-> "list"],
       [name |-> "list_groups", method |-> "GET", has_data |-> FALSE, err_prefix |-> "Error: ", class |-> "list"],
       [name |-> "get_group_members", method |-> "GET", has_data |-> FALSE, err_prefix |-> "Error: ", class |-> "list"],
       [name |-> "get_repository_files", method |-> "GET", has_data |-> FALSE, err_prefix |-> "Error: ", class |-> "list"],
       [name |-> "get_file_content", method |-> "GET", has_data |-> FALSE, err_prefix |-> "Error: ", class |-> "file"],
       [name |-> "get_commits", method |-> "GET", has_data |-> FALSE, err_prefix |-> "Error: ", class |-> "list"],
       [name |-> "create_commit", method |-> "POST", has_data |-> TRUE, err_prefix |-> "Error creating commit: ", class |-> "object"],
       [name |-> "create_branch", method |-> "POST", has_data |-> TRUE, err_prefix |-> "Error creating branch: ", class |-> "object"],
       [name |-> "delete_branch", method |-> "DELETE", has_data |-> FALSE, err_prefix |-> "Error deleting branch: ", class |-> "fixed"],
       [name |-> "create_merge_request", method |-> "POST", has_data |-> TRUE, err_prefix |-> "Error creating merge request: ", class |-> "object"],
       [name |-> "merge_merge_request", method |-> "PUT", has_data |-> TRUE, err_prefix |-> "Error merging MR: ", class |-> "fixed"],
       [name |-> "create_tag", method |-> "POST", has_data |-> TRUE, err_prefix |-> "Error creating tag: ", class |-> "object"],
       [name |-> "get_pipeline_jobs", method |-> "GET", has_data |-> FALSE, err_prefix |-> "Error: ", class |-> "list"],
       [name |-> "trigger_pipeline", method |-> "POST", has_data |-> TRUE, err_prefix |-> "Error triggering pipeline: ", class |-> "object"],
       [name |-> "get_current_user", method |-> "GET", has_data |-> FALSE, err_prefix |-> "Error: ", class |-> "object"],
       [name |-> "search_projects", method |-> "GET", has_data |-> FALSE, err_prefix |-> "Error: ", class |-> "list"],
       [name |-> "get_project_milestones", method |-> "GET", has_data |-> FALSE, err_prefix |-> "Error: ", class |-> "list"],
       [name |-> "get_project_labels", method |-> "GET", has_data |-> FALSE, err_prefix |-> "Error: ", class |-> "list"],
       [name |-> "list_project_hooks", method |-> "GET", has_data |-> FALSE, err_prefix |-> "Error: ", class |-> "list"],
       [name |-> "update_project", method |-> "PUT", has_data |-> TRUE, err_prefix |-> "Error updating project: ", class |-> "object"],
       [name |-> "fork_project", method |-> "POST", has_data |-> TRUE, err_prefix |-> "Error forking project: ", class |-> "object"],
       [name |-> "archive_project", method |-> "POST", has_data |-> FALSE, err_prefix |-> "Error archiving project: ", class |-> "fixed"],
       [name |-> "unarchive_project", method |-> "POST", has_data |-> FALSE, err_prefix |-> "Error unarchiving project: ", class |-> "fixed"],
       [name |-> "create_file", method |-> "POST", has_data |-> TRUE, err_prefix |-> "Error creating file: ", class |-> "fixed"],
       [name |-> "update_file", method |-> "PUT", has_data |-> TRUE, err_prefix |-> "Error updating file: ", class |-> "fixed"],
       [name |-> "delete_file", method |-> "DELETE", has_data |-> TRUE, err_prefix |-> "Error deleting file: ", class |-> "fixed"],
       [name |-> "get_repository_tags", method |-> "GET", has_data |-> FALSE, err_prefix |-> "Error: ", class |-> "list"],
       [name |-> "delete_tag", method |-> "DELETE", has_data |-> FALSE, err_prefix |-> "Error deleting tag: ", class |-> "fixed"],
       [name |-> "compare_branches", method |-> "GET", has_data |-> FALSE, err_prefix |-> "Error: ", class |-> "compare"],
       [name |-> "revert_commit", method |-> "POST", has_data |-> TRUE, err_prefix |-> "Error reverting commit: ", class |-> "object"],
       [name |-> "cherry_pick_commit", method |-> "POST", has_data |-> TRUE, err_prefix |-> "Error cherry-picking commit: ", class |-> "object"],
       [name |-> "update_issue", method |-> "PUT", has_data |-> TRUE, err_prefix |-> "Error updating issue: ", class |-> "object"],
       [name |-> "close_issue", method |-> "PUT", has_data |-> TRUE, err_prefix |-> "Error closing issue: ", class |-> "object"],
       [name |-> "clone_repository", method |-> "GET", has_data |-> FALSE, err_prefix |-> "Error getting project info: ", class |-> "clone"],
       [name |-> "clone_group_repositories", method |-> "GET", has_data |-> FALSE, err_prefix |-> "Error getting group projects: ", class |-> "clone_group"],
       [name |-> "get_project", method |-> "GET", has_data |-> FALSE, err_prefix |-> "Error: ", class |-> "object"],
       [name |-> "star_project", method |-> "POST", has_data |-> FALSE, err_prefix |-> "Error starring project: ", class |-> "object"],
       [name |-> "unstar_project", method |-> "POST", has_data |-> FALSE, err_prefix |-> "Error unstarring project: ", class |-> "object"],
       [name |-> "list_user_projects", method |-> "GET", has_data |-> FALSE, err_prefix |-> "Error: ", class |-> "list"],
       [name |-> "list_starred_projects", method |-> "GET", has_data |-> FALSE, err_prefix |-> "Error: ", class |-> "list"],
       [name |-> "get_project_languages", method |-> "GET", has_data |-> FALSE, err_prefix |-> "Error: ", class |-> "languages"],
       [name |-> "get_project_forks", method |-> "GET", has_data |-> FALSE, err_prefix |-> "Error: ", class |-> "list"],
       [name |-> "transfer_project", method |-> "PUT", has_data |-> TRUE, err_prefix |-> "Error transferring project: ", class |-> "object"],
       [name |-> "get_project_users", method |-> "GET", has_data |-> FALSE, err_prefix |-> "Error: ", class |-> "list"],
       [name |-> "share_project_with_group", method |-> "POST", has_data |-> TRUE, err_prefix |-> "Error sharing project: ", class |-> "fixed"],
       [name |-> "unshare_project_with_group", method |-> "DELETE", has_data |-> FALSE, err_prefix |-> "Error unsharing project: ", class |-> "fixed"],
       [name |-> "list_group_projects", method |-> "GET", has_data |-> FALSE, err_prefix |-> "Error: ", class |-> "list"]
    }

ToolNames == {t.name : t \in Tools}

ToolTable == [n \in ToolNames |-> CHOOSE t \in Tools : t.name = n]

Tool(n) == ToolTable[n]

NoData == [tool |-> None, arg |-> None]

\* Variant: the built-in min is replaced by max.
min_as_max(a, b) == IF a > b THEN a ELSE b

\* Python's min(a, b) on integers.
min(a, b) == IF a < b THEN a ELSE b

\* The tools that take a per_page argument.
PerPageTools == {"list_projects", "list_groups", "list_group_projects"}

\* The per_page part of the query string of a tool's endpoint: the capped
\* argument (lines 105, 255, 1344), the literal of clone_group_repositories
\* (line 1046), or nothing.
PerPageQuery(t, per_page) ==
    IF t.name \in PerPageTools THEN <<min(per_page, MaxPerPage)>>
    ELSE IF t.name = "clone_group_repositories" THEN <<GroupPerPage>>
    ELSE <<>>

\* The endpoint a tool builds from its arguments: its path and the per_page
\* of its query string.
Endpoint(t, arg, per_page) == <<t.name, arg, PerPageQuery(t, per_page)>>

\* The length of the list GitLab answers with when `group` items match the
\* endpoint: one page, of at most the per_page of the query.
PageLength(endpoint, group) ==
    IF endpoint[3] # <<>> /\ endpoint[3][1] >= 1
    THEN min(group, endpoint[3][1])
    ELSE group

\* The JSON body a tool builds from its arguments (data=None when it builds none).
Data(t, arg) == IF t.has_data THEN [tool |-> t.name, arg |-> arg] ELSE NoData

(* ---------------------------------------------------------------------- *)
(* make_gitlab_request                                                     *)
(* ---------------------------------------------------------------------- *)

NoTokenMsg == "GitLab token not provided. Please provide a token parameter, GITLAB_TOKEN in the request headers, or set the environment variable."

NoResult == [type |-> "none", keys |-> {}, error |-> None, len |-> 0]

\* {"error": msg}
ErrorValue(msg) == [type |-> "dict", keys |-> {"error"}, error |-> msg, len |-> 1]

\* Variant: the environment variable is consulted before the request headers.
ResolveTokenEnvFirst(token, ctx) ==
    LET fromEnv == IF ~Truthy(token) THEN env.GITLAB_TOKEN ELSE token
    IN  IF ~Truthy(fromEnv) /\ ctx.shape = "headers" THEN ctx.GITLAB_TOKEN ELSE fromEnv

\* Variant: a built-in token is used when no source has one.
ResolveTokenDefault(token, ctx) ==
    LET fromCtx == IF ~Truthy(token) /\ ctx.shape = "headers" THEN ctx.GITLAB_TOKEN ELSE token
        fromEnv == IF ~Truthy(fromCtx) THEN env.GITLAB_TOKEN ELSE fromCtx
    IN  IF ~Truthy(fromEnv) THEN "tokDefault" ELSE fromEnv

\* Variant: the token given to the previous invocation is kept in a module
\* variable and used before the environment variable.
ResolveTokenSticky(token, ctx) ==
    LET fromCtx == IF ~Truthy(token) /\ ctx.shape = "headers" THEN ctx.GITLAB_TOKEN ELSE token
        kept == IF Truthy(last.token) THEN last.token ELSE last.header
        fromKept == IF ~Truthy(fromCtx) THEN kept ELSE fromCtx
    IN  IF ~Truthy(fromKept) THEN env.GITLAB_TOKEN ELSE fromKept

\* Lines 16-23: the token the dispatcher ends up with (falsy when no source has one).
ResolveToken(token, ctx) ==
    LET fromCtx ==
            IF ~Truthy(token)
               /\ ctx.shape \notin {"None", "no_request_context", "request_context_falsy"}
            THEN IF ctx.shape = "headers" THEN ctx.GITLAB_TOKEN ELSE token
            ELSE token
    IN  IF ~Truthy(fromCtx) THEN env.GITLAB_TOKEN ELSE fromCtx

\* Line 29: os.getenv("GITLAB_URL", "https://gitlab.com")
gitlab_url == IF env.GITLAB_URL = None THEN "https://gitlab.com" ELSE env.GITLAB_URL

\* Lines 31-36: the header set and the URL.
\* Variant: one client is shared by the calls and keeps the headers it was
\* opened with for as long as a call is in flight on it.
BuildHeadersSharedClient(tok) ==
    LET open == {j \in DOMAIN inv : inv[j].pc = "await_http"} IN
    IF open = {}
    THEN [PRIVATE_TOKEN |-> tok, Content_Type |-> "application/json"]
    ELSE inv[CHOOSE j \in open : TRUE].sent[1].headers

BuildHeaders(tok) == [PRIVATE_TOKEN |-> tok, Content_Type |-> "application/json"]

BuildUrl(endpoint) == <<gitlab_url, "/api/v4", endpoint>>

\* Lines 40-47: the call of the httpx client method; json=data only for POST and PUT.
ClientCall(method, url, headers, data) ==
    [verb    |-> method,
     url     |-> url,
     headers |-> headers,
     json    |-> IF method \in {"POST", "PUT"} THEN data ELSE NoData,
     timeout |-> 30]

\* Variant: the check of line 25 is missing.
make_gitlab_request_start_no_token_check(endpoint, method, data, ctx, token) ==
    LET tok == ResolveToken(token, ctx) IN
    IF method \notin HttpVerbs
    THEN [sent |-> <<>>, result |-> ErrorValue("UnboundLocalError")]
    ELSE [sent |-> <<ClientCall(method, BuildUrl(endpoint), BuildHeaders(tok), data)>>,
          result |-> NoResult]

\* Variant: the verb chain ends in an else branch that sends a GET.
make_gitlab_request_start_default_get(endpoint, method, data, ctx, token) ==
    LET tok == ResolveToken(token, ctx) IN
    IF ~Truthy(tok)
    THEN [sent |-> <<>>, result |-> ErrorValue(NoTokenMsg)]
    ELSE [sent |-> <<ClientCall(IF method \in HttpVerbs THEN method ELSE "GET",
                                BuildUrl(endpoint), BuildHeaders(tok), data)>>,
          result |-> NoResult]

\* Lines 16-47, up to the await of the client call: the requests sent (none or
\* one) and, when none is sent, the error value returned at once.  A method
\* outside the four verbs leaves `response` unbound, and line 49 raises
\* UnboundLocalError, which line 51 catches.
make_gitlab_request_start(endpoint, method, data, ctx, token) ==
    LET tok == ResolveToken(token, ctx) IN
    IF ~Truthy(tok)
    THEN [sent |-> <<>>, result |-> ErrorValue(NoTokenMsg)]
    ELSE IF method \notin HttpVerbs
    THEN [sent |-> <<>>, result |-> ErrorValue("UnboundLocalError")]
    ELSE [sent |-> <<ClientCall(method, BuildUrl(endpoint), BuildHeaders(tok), data)>>,
          result |-> NoResult]

\* What the awaited client call can end in: an exception of the HTTP step, or
\* a successful response with one of the body shapes below.
Failures == {"ConnectError", "TimeoutException", "HTTPStatusError", "JSONDecodeError"}
Bodies == {"empty", "object", "object_partial", "object_error_key", "list", "empty_list"}

\* Variant: response.json() is called after the try block, so that an
\* undecodable body raises out of the dispatcher.
make_gitlab_request_finish_uncaught(outcome, n) ==
    CASE outcome = "JSONDecodeError" ->
            [type |-> "raise", keys |-> {}, error |-> outcome, len |-> 0]
      [] outcome \in Failures \ {"JSONDecodeError"} -> ErrorValue(outcome)
      [] outcome = "empty" -> [type |-> "dict", keys |-> {"success"}, error |-> None, len |-> 1]
      [] outcome = "object" -> [type |-> "dict", keys |-> {"fields"}, error |-> None, len |-> 1]
      [] outcome = "object_partial" -> [type |-> "dict", keys |-> {"other"}, error |-> None, len |-> 1]
      [] outcome = "object_error_key" ->
            [type |-> "dict", keys |-> {"fields", "error"}, error |-> "api error text", len |-> 2]
      [] outcome = "list" -> [type |-> "list", keys |-> {"fields"}, error |-> None, len |-> n]
      [] outcome = "empty_list" -> [type |-> "list", keys |-> {}, error |-> None, len |-> 0]

\* Lines 49-52: the dispatcher's return value for an outcome of the client call.
\* "fields" stands for the keys the calling tool formats; n is the length of
\* a JSON list.
make_gitlab_request_finish(outcome, n) ==
    CASE outcome \in Failures -> ErrorValue(outcome)
      [] outcome = "empty" -> [type |-> "dict", keys |-> {"success"}, error |-> None, len |-> 1]
      [] outcome = "object" -> [type |-> "dict", keys |-> {"fields"}, error |-> None, len |-> 1]
      [] outcome = "object_partial" -> [type |-> "dict", keys |-> {"other"}, error |-> None, len |-> 1]
      [] outcome = "object_error_key" ->
            [type |-> "dict", keys |-> {"fields", "error"}, error |-> "api error text", len |-> 2]
      [] outcome = "list" -> [type |-> "list", keys |-> {"fields"}, error |-> None, len |-> n]
      [] outcome = "empty_list" -> [type |-> "list", keys |-> {}, error |-> None, len |-> 0]

(* ---------------------------------------------------------------------- *)
(* The tools                                                               *)
(* ---------------------------------------------------------------------- *)

\* isinstance(result, dict) and "error" in result
HasError(result) == result.type = "dict" /\ "error" \in result.keys

NoUrl == [scheme |-> None, cred |-> None]

\* One tool invocation (a coroutine of the server).  pc is its position:
\* idle, await_http (suspended in the client call), git (blocked in
\* subprocess.run), returned, raised.
IdleSlot ==
    [pc |-> "idle", tool |-> None, arg |-> None, token |-> None,
     ctx |-> [shape |-> "None", GITLAB_TOKEN |-> None], use_ssh |-> FALSE,
     per_page |-> 0, endpoint |-> <<>>, method |-> None, data |-> NoData,
     calls |-> 0, sent |-> <<>>, http |-> None, result |-> NoResult,
     ret |-> <<>>, path |-> None, effects |-> <<>>,
     group |-> 0, n |-> 0, k |-> 0, cloned |-> <<>>, failed |-> <<>>,
     exits |-> <<>>]

\* Variant: the tool returns its own text without the dispatcher's message.
ErrorReturnNoMessage(s, prefix, result) ==
    [s EXCEPT !.pc = "returned", !.result = result, !.path = "error",
              !.ret = <<prefix>>]

\* return f"<prefix>{result['error']}"
ErrorReturn(s, prefix, result) ==
    [s EXCEPT !.pc = "returned", !.result = result, !.path = "error",
              !.ret = <<prefix, result.error>>]

Raise(s, result, exc) ==
    [s EXCEPT !.pc = "raised", !.result = result, !.path = exc]

Formatted(s, result, text) ==
    [s EXCEPT !.pc = "returned", !.result = result, !.path = "format", !.ret = text]

\* The code after the error check of the tools that neither clone nor list a
\* group for cloning, by the way the tool reads the result: "fixed" ignores
\* it, "object" subscripts it, "list" tests it for emptiness and iterates,
\* "file" (get_file_content) reads it under a bare except, "compare"
\* (compare_branches) reads it with .get, "languages" (get_project_languages)
\* tests it for emptiness and iterates .items(), whose values are numbers.
FormatResult(s, t, result) ==
    CASE t.class = "fixed" ->
            Formatted(s, result, <<"done: ", t.name, s.arg>>)
      [] t.class = "object" ->
            IF result.type = "dict" /\ "fields" \in result.keys
            THEN Formatted(s, result, <<"fields of ", t.name>>)
            ELSE Raise(s, result, IF result.type = "dict" THEN "KeyError" ELSE "TypeError")
      [] t.class = "list" ->
            IF result.len = 0
            THEN Formatted(s, result, <<"No items found.">>)
            ELSE IF result.type = "list"
            THEN Formatted(s, result, <<"items of ", t.name>>)
            ELSE Raise(s, result, "TypeError")
      [] t.class = "file" ->
            IF result.type = "dict" /\ "fields" \in result.keys
            THEN Formatted(s, result, <<"File: ", s.arg>>)
            ELSE Formatted(s, result, <<"Unable to decode file content">>)
      [] t.class = "compare" ->
            IF result.type = "dict"
            THEN Formatted(s, result, <<"Comparing ", s.arg>>)
            ELSE Raise(s, result, "AttributeError")
      [] t.class = "languages" ->
            IF result.len = 0
            THEN Formatted(s, result, <<"No language data available.">>)
            ELSE IF result.type = "dict"
            THEN Formatted(s, result, <<"languages of ", s.arg>>)
            ELSE Raise(s, result, "AttributeError")

\* clone_token = token or os.getenv("GITLAB_TOKEN")
clone_token(token) == IF Truthy(token) THEN token ELSE env.GITLAB_TOKEN

\* Variant: the credential is put after the scheme, whatever the scheme.
EmbedTokenAnyScheme(clone_url, tok) ==
    IF Truthy(tok)
    THEN [clone_url EXCEPT !.cred = tok]
    ELSE clone_url

\* clone_url.replace("https://", f"https://gitlab-ci-token:{clone_token}@")
EmbedToken(clone_url, tok) ==
    IF Truthy(tok) /\ clone_url.scheme = "https"
    THEN [clone_url EXCEPT !.cred = tok]
    ELSE clone_url

GitClone(url, k) == [op |-> "git clone", url |-> url, k |-> k]

\* clone_repository, lines 996-1018: from the project data to the start of git.
\* scheme is the scheme of the project's http_url_to_repo.
clone_repository_start(s, result, scheme) ==
    IF ~(result.type = "dict" /\ "fields" \in result.keys)
    THEN Raise(s, result, IF result.type = "dict" THEN "KeyError" ELSE "TypeError")
    ELSE LET url == IF s.use_ssh
                    THEN [scheme |-> "ssh", cred |-> None]
                    ELSE EmbedToken([scheme |-> scheme, cred |-> None], clone_token(s.token))
         IN  [s EXCEPT !.pc = "git", !.result = result, !.n = 1, !.k = 1,
                       !.effects = Append(@, GitClone(url, 1))]

\* The clone URL clone_group_repositories builds for one project (lines 1067-1069).
GroupCloneUrl(s) == EmbedToken([scheme |-> "https", cred |-> None], clone_token(s.token))

\* Variant: the clones are all started at once (Popen) and awaited later.
clone_group_repositories_start_all_at_once(s, result, mk) ==
    IF result.len = 0
    THEN Formatted(s, result, <<"No projects found in group">>)
    ELSE IF mk # "ok"
    THEN [s EXCEPT !.pc = "returned", !.result = result, !.path = "makedirs_error",
                   !.ret = <<"Error creating base directory: ", mk>>,
                   !.effects = Append(@, [op |-> "makedirs", url |-> NoUrl, k |-> 0])]
    ELSE IF result.type # "list"
    THEN [Raise(s, result, "TypeError") EXCEPT
                   !.effects = Append(@, [op |-> "makedirs", url |-> NoUrl, k |-> 0])]
    ELSE [s EXCEPT !.pc = "git", !.result = result, !.n = result.len, !.k = 1,
                   !.effects = @ \o <<[op |-> "makedirs", url |-> NoUrl, k |-> 0]>>
                                 \o [j \in 1..result.len |-> GitClone(GroupCloneUrl(s), j)]]

\* clone_group_repositories, lines 1051-1078: from the project list to the
\* start of the first git.  mk is the outcome of os.makedirs.
clone_group_repositories_start(s, result, mk) ==
    IF result.len = 0
    THEN Formatted(s, result, <<"No projects found in group">>)
    ELSE IF mk # "ok"
    THEN [s EXCEPT !.pc = "returned", !.result = result, !.path = "makedirs_error",
                   !.ret = <<"Error creating base directory: ", mk>>,
                   !.effects = Append(@, [op |-> "makedirs", url |-> NoUrl, k |-> 0])]
    ELSE IF result.type # "list"
    THEN [Raise(s, result, "TypeError") EXCEPT
                   !.effects = Append(@, [op |-> "makedirs", url |-> NoUrl, k |-> 0])]
    ELSE [s EXCEPT !.pc = "git", !.result = result, !.n = result.len, !.k = 1,
                   !.effects = @ \o <<[op |-> "makedirs", url |-> NoUrl, k |-> 0],
                                      GitClone(GroupCloneUrl(s), 1)>>]

\* Variant: a request that failed is sent once more.
AfterResultRetry(s, result, scheme, mk) ==
    LET t == Tool(s.tool) IN
    IF s.http \in Failures /\ Len(s.sent) < 2
    THEN [s EXCEPT !.pc = "await_http", !.sent = Append(@, @[1])]
    ELSE IF HasError(result) THEN ErrorReturn(s, t.err_prefix, result)
    ELSE CASE t.class = "clone" -> clone_repository_start(s, result, scheme)
           [] t.class = "clone_group" -> clone_group_repositories_start(s, result, mk)
           [] OTHER -> FormatResult(s, t, result)

\* A tool's code from the return of the dispatcher on.
AfterResult(s, result, scheme, mk) ==
    LET t == Tool(s.tool) IN
    IF HasError(result) THEN ErrorReturn(s, t.err_prefix, result)
    ELSE CASE t.class = "clone" -> clone_repository_start(s, result, scheme)
           [] t.class = "clone_group" -> clone_group_repositories_start(s, result, mk)
           [] OTHER -> FormatResult(s, t, result)

GitOutcomes == {"exit0", "nonzero", "TimeoutExpired", "FileNotFoundError", "OSError"}

\* The text of a clone URL: the replacement of line 1005 puts the token between
\* the scheme and the host.
UrlText(url) ==
    IF url.cred = None
    THEN <<url.scheme, "://host/path.git">>
    ELSE <<url.scheme, "://gitlab-ci-token:", url.cred, "@host/path.git">>

\* str(e) of what subprocess.run(["git", "clone", clone_url, local_path],
\* timeout=300) raises: TimeoutExpired prints its cmd, the argument list;
\* FileNotFoundError and the other OSErrors print errno, strerror and the
\* name of the executable.
ExceptionText(g, url) ==
    CASE g = "TimeoutExpired" ->
            <<"Command '['git', 'clone', '">> \o UrlText(url)
                \o <<"', 'local_path']' timed out after 300 seconds">>
      [] g = "FileNotFoundError" ->
            <<"[Errno 2] No such file or directory: 'git'">>
      [] OTHER -> <<g>>

\* Variant: without the handler of subprocess.TimeoutExpired and the handlers
\* after it, so that a timeout leaves the tool as an exception.
clone_repository_end_timeout_uncaught(s, g) ==
    LET r == [s EXCEPT !.exits = <<g>>] IN
    CASE g = "exit0" ->
            [r EXCEPT !.pc = "returned", !.path = "cloned", !.cloned = <<1>>,
                      !.ret = <<"Repository cloned successfully to: ", "local_path">>]
      [] g = "nonzero" ->
            [r EXCEPT !.pc = "returned", !.path = "git_error", !.failed = <<1>>,
                      !.ret = <<"Error cloning repository: ", "stderr">>]
      [] OTHER ->
            [r EXCEPT !.pc = "raised", !.path = g, !.failed = <<1>>]

\* clone_repository, lines 1020-1030.
clone_repository_end(s, g) ==
    LET r == [s EXCEPT !.exits = <<g>>] IN
    CASE g = "exit0" ->
            [r EXCEPT !.pc = "returned", !.path = "cloned", !.cloned = <<1>>,
                      !.ret = <<"Repository cloned successfully to: ", "local_path">>]
      [] g = "nonzero" ->
            [r EXCEPT !.pc = "returned", !.path = "git_error", !.failed = <<1>>,
                      !.ret = <<"Error cloning repository: ", "stderr">>]
      [] g = "TimeoutExpired" ->
            [r EXCEPT !.pc = "returned", !.path = "git_error", !.failed = <<1>>,
                      !.ret = <<"Error: Clone operation timed out (5 minutes)">>]
      [] g = "FileNotFoundError" ->
            [r EXCEPT !.pc = "returned", !.path = "git_error", !.failed = <<1>>,
                      !.ret = <<"Error: Git command not found. Please install Git.">>]
      [] OTHER ->
            [r EXCEPT !.pc = "returned", !.path = "git_error", !.failed = <<1>>,
                      !.ret = <<"Error cloning repository: ", g>>]

\* Lines 1083-1086: the entry of the failed list for a clone that ended with g.
FailedEntry(g, url) ==
    <<"name: ">> \o (IF g = "nonzero" THEN <<"stderr">> ELSE ExceptionText(g, url))

\* '; '.join(failed)
RECURSIVE JoinFailed(_, _, _)
JoinFailed(failed, exits, url) ==
    IF failed = <<>> THEN <<>>
    ELSE FailedEntry(exits[Head(failed)], url) \o JoinFailed(Tail(failed), exits, url)

\* Lines 1088-1094: the result message.
result_msg(cloned, failed, exits, url) ==
    <<"Cloned ", "repositories to ", "base_path">>
        \o (IF cloned # <<>> THEN <<"Successful: ", "names">> ELSE <<>>)
        \o (IF failed # <<>> THEN <<"Failed: ">> \o JoinFailed(failed, exits, url) ELSE <<>>)

\* Variant: the loop stops at the first clone that fails.
clone_group_repositories_end_stop_on_failure(s, g) ==
    LET cloned == IF g = "exit0" THEN Append(s.cloned, s.k) ELSE s.cloned
        failed == IF g = "exit0" THEN s.failed ELSE Append(s.failed, s.k)
        exits  == Append(s.exits, g)
    IN  IF s.k < s.n /\ g = "exit0"
        THEN [s EXCEPT !.cloned = cloned, !.failed = failed, !.exits = exits,
                       !.k = s.k + 1,
                       !.effects = Append(@, GitClone(GroupCloneUrl(s), s.k + 1))]
        ELSE [s EXCEPT !.pc = "returned", !.path = "cloned",
                       !.cloned = cloned, !.failed = failed, !.exits = exits,
                       !.ret = result_msg(cloned, failed, exits, GroupCloneUrl(s))]

\* clone_group_repositories, lines 1080-1094: the end of the clone of project
\* k, then either the next clone or the result message.
clone_group_repositories_end(s, g) ==
    LET cloned == IF g = "exit0" THEN Append(s.cloned, s.k) ELSE s.cloned
        failed == IF g = "exit0" THEN s.failed ELSE Append(s.failed, s.k)
        exits  == Append(s.exits, g)
    IN  IF s.k < s.n
        THEN [s EXCEPT !.cloned = cloned, !.failed = failed, !.exits = exits,
                       !.k = s.k + 1,
                       !.effects = Append(@, GitClone(GroupCloneUrl(s), s.k + 1))]
        ELSE [s EXCEPT !.pc = "returned", !.path = "cloned",
                       !.cloned = cloned, !.failed = failed, !.exits = exits,
                       !.ret = result_msg(cloned, failed, exits, GroupCloneUrl(s))]

(* ---------------------------------------------------------------------- *)
(* main                                                                    *)
(* ---------------------------------------------------------------------- *)

\* Line 9: mcp = FastMCP("GitLab MCP Server", host="0.0.0.0", port=8000)
mcp_settings == [host |-> "0.0.0.0", port |-> 8000]

\* What the command line may carry (None: the option is omitted).
ArgvTransports == {None, "stdio", "sse", "streamable-http"}
ArgvHosts == {None, "localhost", "127.0.0.1", "0.0.0.0", "192.168.1.5"}
ArgvPorts == {None, "8000", "8080", "9000", "3000"}

\* type=int of the --port argument.
ParsePort(text) ==
    CASE text = "8000" -> 8000
      [] text = "8080" -> 8080
      [] text = "9000" -> 9000
      [] text = "3000" -> 3000

\* Lines 1363-1383: parser.parse_args() with the defaults of the three arguments.
ParseArgs(transport, host, port) ==
    [transport |-> IF transport = None THEN "stdio" ELSE transport,
     host      |-> IF host = None THEN "localhost" ELSE host,
     port      |-> IF port = None THEN 8000 ELSE ParsePort(port)]

\* mcp.run(transport=...): the set of addresses the server then listens on.
\* The HTTP transports bind the host and port of the FastMCP settings; stdio
\* binds nothing.
mcp_run(transport, settings) ==
    IF transport \in {"sse", "streamable-http"} THEN {settings} ELSE {}

\* Lines 1386-1391: main hands only the transport to mcp.run.
main_listen(args) == mcp_run(args.transport, mcp_settings)

NoArgv == [transport |-> None, host |-> None, port |-> None]

ServerImported ==
    [phase |-> "imported", argv |-> NoArgv, args |-> ParseArgs(None, None, None),
     listen |-> {}]

\* main() is entered with a command line and parses it.
main_parse_args(transport, host, port) ==
    /\ server.phase = "imported"
    /\ server' = [server EXCEPT !.phase = "parsed",
                                !.argv = [transport |-> transport, host |-> host, port |-> port],
                                !.args = ParseArgs(transport, host, port)]
    /\ UNCHANGED <<env, inv, last>>

\* main() starts the server on the chosen transport.
main_run ==
    /\ server.phase = "parsed"
    /\ server' = [server EXCEPT !.phase = "running", !.listen = main_listen(server.args)]
    /\ UNCHANGED <<env, inv, last>>

(* ---------------------------------------------------------------------- *)
(* Actions of a running server                                             *)
(* ---------------------------------------------------------------------- *)

Envs == [GITLAB_TOKEN : EnvTokens, GITLAB_URL : EnvUrls]


\* A tool is invoked: it builds its endpoint and body and calls the dispatcher,
\* which either returns an error at once or suspends in the client call.
InvokeTool(i, t, arg, token, ctx, use_ssh, per_page) ==
    /\ server.phase = "running"
    /\ inv[i].pc = "idle"
    /\ LET d == make_gitlab_request_start(Endpoint(t, arg, per_page), t.method,
                                          Data(t, arg), ctx, token)
           s == [IdleSlot EXCEPT !.tool = t.name, !.arg = arg, !.token = token,
                                 !.ctx = ctx, !.use_ssh = use_ssh,
                                 !.per_page = per_page,
                                 !.endpoint = Endpoint(t, arg, per_page),
                                 !.method = t.method, !.data = Data(t, arg),
                                 !.calls = 1, !.sent = d.sent]
       IN  inv' = [inv EXCEPT ![i] =
                      IF d.sent = <<>>
                      THEN AfterResult(s, d.result, None, None)
                      ELSE [s EXCEPT !.pc = "await_http"]]
    /\ UNCHANGED <<env, last, server>>

\* make_gitlab_request is called on its own, with any method value.
CallDispatcher(i, method, data, arg, token, ctx) ==
    /\ server.phase = "running"
    /\ inv[i].pc = "idle"
    /\ LET d == make_gitlab_request_start(<<"endpoint", arg, <<>>>>, method, data, ctx, token)
           s == [IdleSlot EXCEPT !.tool = "make_gitlab_request", !.arg = arg,
                                 !.token = token, !.ctx = ctx,
                                 !.endpoint = <<"endpoint", arg, <<>>>>,
                                 !.method = method, !.data = data,
                                 !.calls = 1, !.sent = d.sent]
       IN  inv' = [inv EXCEPT ![i] =
                      IF d.sent = <<>>
                      THEN [s EXCEPT !.pc = "returned", !.result = d.result, !.path = "dict"]
                      ELSE [s EXCEPT !.pc = "await_http"]]
    /\ UNCHANGED <<env, last, server>>

\* The awaited client call ends; the dispatcher returns and the calling tool
\* runs on to its return, its raise or its first git process.  group is the
\* number of items on the GitLab side when the answer is a list.
HttpResponse(i, outcome, group, scheme, mk) ==
    /\ inv[i].pc = "await_http"
    /\ LET s == [inv[i] EXCEPT !.http = outcome,
                               !.group = IF outcome = "list" THEN group ELSE 0]
           result == make_gitlab_request_finish(outcome, PageLength(s.endpoint, group))
       IN  inv' = [inv EXCEPT ![i] =
                      IF s.tool = "make_gitlab_request"
                      THEN [s EXCEPT !.pc = "returned", !.result = result, !.path = "dict"]
                      ELSE AfterResult(s, result, scheme, mk)]
    /\ UNCHANGED <<env, last, server>>

\* subprocess.run returns or raises.
GitExit(i, g) ==
    /\ inv[i].pc = "git"
    /\ inv' = [inv EXCEPT ![i] =
                  IF Tool(inv[i].tool).class = "clone"
                  THEN clone_repository_end(inv[i], g)
                  ELSE clone_group_repositories_end(inv[i], g)]
    /\ UNCHANGED <<env, last, server>>

\* What is remembered of an invocation after its end (by the model only; the
\* server keeps nothing): the tokens it was given and the token it sent.
NoMemory == [token |-> None, header |-> None, sent |-> None]

Memory(s) ==
    [token  |-> s.token,
     header |-> IF s.ctx.shape = "headers" THEN s.ctx.GITLAB_TOKEN ELSE None,
     sent   |-> s.sent[1].headers.PRIVATE_TOKEN]

\* The invocation is over; its coroutine is gone.
Complete(i) ==
    /\ inv[i].pc \in {"returned", "raised"}
    /\ inv' = [inv EXCEPT ![i] = IdleSlot]
    /\ last' = IF inv[i].sent # <<>> THEN Memory(inv[i]) ELSE last
    /\ UNCHANGED <<env, server>>

(* ---------------------------------------------------------------------- *)
(* Specifications                                                          *)
(* ---------------------------------------------------------------------- *)

\* The server runs (started by main on stdio with no options); the
\* environment is whatever the process was started with.
Init ==
    /\ env \in Envs
    /\ inv = [i \in Slots |-> IdleSlot]
    /\ last = NoMemory
    /\ server = [ServerImported EXCEPT !.phase = "running"]

\* The quantifiers over the inputs are opened only where the action is enabled.
Next ==
    \/ \E i \in Slots :
          /\ inv[i].pc = "idle"
          /\ \E t \in Tools, arg \in ArgVals, token \in TokenArgs, ctx \in Ctxs :
                \E use_ssh \in IF t.class = "clone" THEN BOOLEAN ELSE {FALSE},
                   per_page \in IF t.name \in PerPageTools THEN PerPageVals ELSE {0} :
                    InvokeTool(i, t, arg, token, ctx, use_ssh, per_page)
    \/ \E i \in Slots :
          /\ inv[i].pc = "idle"
          /\ \E method \in MethodVals, arg \in ArgVals, token \in TokenArgs,
                ctx \in Ctxs, has_data \in BOOLEAN :
                    CallDispatcher(i, method,
                                   IF has_data
                                   THEN [tool |-> "make_gitlab_request", arg |-> arg]
                                   ELSE NoData,
                                   arg, token, ctx)
    \/ \E i \in Slots :
          /\ inv[i].pc = "await_http"
          /\ \E outcome \in Failures \cup Bodies :
                \E group \in IF outcome = "list" /\ inv[i].tool = "clone_group_repositories"
                              THEN 1..MaxProjects ELSE {1},
                   scheme \in IF inv[i].tool = "clone_repository" /\ outcome = "object"
                               THEN {"https", "http"} ELSE {"https"},
                   mk \in IF inv[i].tool = "clone_group_repositories" /\ outcome \in Bodies
                           THEN {"ok", "PermissionError"} ELSE {"ok"} :
                    HttpResponse(i, outcome, group, scheme, mk)
    \/ \E i \in Slots, g \in GitOutcomes : GitExit(i, g)
    \/ \E i \in Slots : Complete(i)

Spec == Init /\ [][Next]_vars

\* clone_group_repositories alone, on groups up to one project more than a
\* page holds.  In the groups larger than MaxProjects every git clone
\* succeeds.
InitGroup ==
    /\ env \in Envs
    /\ inv = [i \in Slots |-> IdleSlot]
    /\ last = NoMemory
    /\ server = [ServerImported EXCEPT !.phase = "running"]

NextGroup ==
    \/ \E i \in Slots :
          /\ inv[i].pc = "idle"
          /\ \E arg \in ArgVals, token \in TokenArgs :
                InvokeTool(i, Tool("clone_group_repositories"), arg, token,
                           [shape |-> "None", GITLAB_TOKEN |-> None], FALSE, 0)
    \/ \E i \in Slots :
          /\ inv[i].pc = "await_http"
          /\ \E outcome \in {"HTTPStatusError", "list", "empty_list"} :
                \E group \in IF outcome = "list"
                              THEN (1..MaxProjects) \cup {GroupPerPage, GroupPerPage + 1}
                              ELSE {1} :
                    HttpResponse(i, outcome, group, "https", "ok")
    \/ \E i \in Slots :
          /\ inv[i].pc = "git"
          /\ \E g \in IF inv[i].n <= MaxProjects THEN GitOutcomes ELSE {"exit0"} :
                GitExit(i, g)
    \/ \E i \in Slots : Complete(i)

SpecGroup == InitGroup /\ [][NextGroup]_vars

\* Two tool invocations in the one server process.  The tools are coroutines
\* of the one event loop: an invocation runs from one await to the next
\* without interruption, and the only await that suspends a tool is the client
\* call of the dispatcher (lines 38-47).
Coroutines == {1, 2}

ConcTools == {"get_project", "create_project", "delete_file",
              "clone_repository", "clone_group_repositories"}
ConcCtxs == {[shape |-> "None", GITLAB_TOKEN |-> None],
             [shape |-> "headers", GITLAB_TOKEN |-> "tokH"]}
ConcOutcomes == {"HTTPStatusError", "object", "list"}
ConcGitOutcomes == {"exit0", "TimeoutExpired"}

\* Variant: git is started with asyncio.create_subprocess_exec and awaited, so
\* that the event loop runs the other coroutines meanwhile.
event_loop_free_git_awaited == TRUE

\* subprocess.run (lines 1013, 1073) is a blocking call made inside the
\* coroutine: until it returns or raises, the thread of the event loop is in
\* it and the loop runs nothing.
event_loop_free == \A j \in DOMAIN inv : inv[j].pc # "git"

InitConc ==
    /\ env \in {e \in Envs : e.GITLAB_TOKEN # ""}
    /\ inv = [i \in Coroutines |-> IdleSlot]
    /\ last = NoMemory
    /\ server = [ServerImported EXCEPT !.phase = "running"]

NextConc ==
    \/ \E i \in Coroutines :
          /\ event_loop_free
          /\ inv[i].pc = "idle"
          /\ \E n \in ConcTools, arg \in ArgVals, token \in {None, "tokA"},
                ctx \in ConcCtxs :
                    InvokeTool(i, Tool(n), arg, token, ctx, FALSE, 0)
    \/ \E i \in Coroutines :
          /\ event_loop_free
          /\ inv[i].pc = "await_http"
          /\ \E outcome \in ConcOutcomes :
                \E group \in IF outcome = "list" /\ inv[i].tool = "clone_group_repositories"
                              THEN 1..MaxProjects ELSE {1} :
                    HttpResponse(i, outcome, group, "https", "ok")
    \/ \E i \in Coroutines :
          /\ inv[i].pc = "git"
          /\ \E g \in ConcGitOutcomes : GitExit(i, g)
    \/ \E i \in Coroutines :
          /\ event_loop_free
          /\ Complete(i)

SpecConc == InitConc /\ [][NextConc]_vars

\* main alone: from the import of the module to the running server.
InitMain ==
    /\ env = [GITLAB_TOKEN |-> None, GITLAB_URL |-> None]
    /\ inv = [i \in Slots |-> IdleSlot]
    /\ last = NoMemory
    /\ server = ServerImported

NextMain ==
    \/ \E transport \in ArgvTransports, host \in ArgvHosts, port \in ArgvPorts :
            main_parse_args(transport, host, port)
    \/ main_run

SpecMain == InitMain /\ [][NextMain]_vars

(* ---------------------------------------------------------------------- *)
(* Properties                                                              *)
(* ---------------------------------------------------------------------- *)

\* The GITLAB_TOKEN entry of ctx.request_context.headers, None when there is none.
HeaderEntry(ctx) == IF ctx.shape = "headers" THEN ctx.GITLAB_TOKEN ELSE None

\* The first non-empty value among the three, None when all are empty.
FirstNonEmpty(a, b, c) ==
    IF a # None /\ a # "" THEN a
    ELSE IF b # None /\ b # "" THEN b
    ELSE IF c # None /\ c # "" THEN c
    ELSE None

\* The credential the precedence rule gives the invocation s.
Winner(s) == FirstNonEmpty(s.token, HeaderEntry(s.ctx), env.GITLAB_TOKEN)

IsErrorValue(r) == r.type = "dict" /\ r.keys = {"error"}

\* C1: the PRIVATE-TOKEN header of every request an invocation sends is the
\* first non-empty value among (token argument, GITLAB_TOKEN header entry,
\* GITLAB_TOKEN environment variable), whatever combination of present,
\* absent and empty values the three sources have; and whenever one of them
\* is non-empty the request of a valid verb is sent.
C1_CredentialPrecedence ==
    \A i \in Slots :
        LET s == inv[i] IN
        s.pc # "idle" =>
            /\ \A k \in 1..Len(s.sent) : s.sent[k].headers.PRIVATE_TOKEN = Winner(s)
            /\ (Winner(s) # None /\ s.method \in HttpVerbs => Len(s.sent) = 1)

\* A request went out with the header's token although the environment has
\* one too and the token argument is the empty string.
C1_Witness ==
    \E i \in Slots :
        /\ inv[i].sent # <<>>
        /\ inv[i].token = ""
        /\ inv[i].ctx.shape = "headers"
        /\ inv[i].ctx.GITLAB_TOKEN = "tokH"
        /\ env.GITLAB_TOKEN = "tokE"
        /\ inv[i].sent[1].headers.PRIVATE_TOKEN = "tokH"

\* C2: the token sent is a non-empty value that one of the three sources
\* of the call supplied, and two dispatcher calls given the same (token
\* argument, header token, environment token) send the same token, whatever
\* else differs between them (tool, arguments, shape of ctx).
C2_OneSourceWins ==
    \A i \in Slots :
        LET s == inv[i] IN
        s.sent # <<>> =>
            LET tok == s.sent[1].headers.PRIVATE_TOKEN IN
            /\ tok # None /\ tok # ""
            /\ tok \in {s.token, HeaderEntry(s.ctx), env.GITLAB_TOKEN}
            /\ (last.sent # None /\ last.token = s.token /\ last.header = HeaderEntry(s.ctx)
                    => tok = last.sent)

\* Two calls in a row with the same sources, none in the header of the
\* second, whose ctx has no headers at all.
C2_Witness ==
    \E i \in Slots :
        /\ inv[i].sent # <<>>
        /\ last.sent # None
        /\ last.token = inv[i].token
        /\ last.header = HeaderEntry(inv[i].ctx)
        /\ inv[i].ctx.shape = "no_headers"

\* C3: when no source supplies a non-empty token the dispatcher returns the
\* error value and no HTTP request is sent.
C3_NoTokenNoRequest ==
    \A i \in Slots :
        LET s == inv[i] IN
        s.pc # "idle" /\ Winner(s) = None =>
            /\ s.sent = <<>>
            /\ s.result = ErrorValue(NoTokenMsg)
            /\ s.pc = "returned"

\* A call with an empty token argument, an empty header entry and no
\* environment variable has returned.
C3_Witness ==
    \E i \in Slots :
        /\ inv[i].pc = "returned"
        /\ inv[i].token = ""
        /\ inv[i].ctx.shape = "headers"
        /\ inv[i].ctx.GITLAB_TOKEN = ""
        /\ env.GITLAB_TOKEN = None
        /\ inv[i].sent = <<>>

\* C4: every failure of the HTTP step (connection error, timeout, non-success
\* status, undecodable body) makes the dispatcher return a dict whose only key
\* is "error"; no exception reaches the calling tool, which returns.
C4_FailureBecomesErrorValue ==
    \A i \in Slots :
        LET s == inv[i] IN
        s.http \in Failures =>
            /\ s.result.type = "dict"
            /\ s.result.keys = {"error"}
            /\ s.result.error = s.http
            /\ s.pc = "returned"

\* The body of a response could not be decoded.
C4_Witness ==
    \E i \in Slots :
        /\ inv[i].http = "JSONDecodeError"
        /\ inv[i].result.keys = {"error"}

\* C5: once a credential is resolved, a method among GET, POST, PUT and DELETE
\* sends exactly one request of that verb to <GITLAB_URL>/api/v4<endpoint>;
\* any other method value sends no request and returns an error value.
C5_VerbDispatch ==
    \A i \in Slots :
        LET s == inv[i] IN
        s.pc # "idle" /\ Winner(s) # None =>
            IF s.method \in {"GET", "POST", "PUT", "DELETE"}
            THEN /\ Len(s.sent) = 1
                 /\ s.sent[1].verb = s.method
                 /\ s.sent[1].url =
                       <<IF env.GITLAB_URL = None THEN "https://gitlab.com" ELSE env.GITLAB_URL,
                         "/api/v4", s.endpoint>>
            ELSE /\ s.sent = <<>>
                 /\ IsErrorValue(s.result)
                 /\ s.pc = "returned"

\* The dispatcher was called with a credential and the method PATCH.
C5_Witness ==
    \E i \in Slots :
        /\ inv[i].pc = "returned"
        /\ inv[i].method = "PATCH"
        /\ inv[i].token = "tokA"
        /\ IsErrorValue(inv[i].result)

\* C6: every tool that builds a JSON body and hands it to the dispatcher (the
\* POST and PUT tools, and delete_file) has that body in its outbound request.
C6_BodyCarried ==
    \A i \in Slots :
        LET s == inv[i] IN
        s.tool \in ToolNames /\ s.data # NoData /\ s.sent # <<>> =>
            s.sent[1].json = s.data

\* C7: a tool invocation calls the dispatcher exactly once, at most one HTTP
\* request is sent for it, and a request that failed is not sent again.
C7_SingleHttpCall ==
    \A i \in Slots :
        LET s == inv[i] IN
        s.pc # "idle" /\ s.tool \in ToolNames =>
            /\ s.calls = 1
            /\ Len(s.sent) <= 1
            /\ (s.http \in Failures => s.pc = "returned" /\ Len(s.sent) = 1)

\* A request of clone_group_repositories timed out.
C7_Witness ==
    \E i \in Slots :
        /\ inv[i].tool = "clone_group_repositories"
        /\ inv[i].http = "TimeoutException"
        /\ inv[i].pc = "returned"

\* C8: the request of an invocation is made of its own arguments, its ctx and
\* the environment only; an invocation that is given no token sends the
\* environment's token, or nothing when the environment has none, whatever
\* tokens earlier invocations were given.
C8_Stateless ==
    \A i \in Slots :
        LET s == inv[i] IN
        s.pc # "idle" =>
            /\ \A k \in 1..Len(s.sent) :
                  /\ s.sent[k].verb = s.method
                  /\ s.sent[k].url[3] = s.endpoint
                  /\ s.sent[k].json \in {s.data, NoData}
                  /\ s.sent[k].headers.PRIVATE_TOKEN
                        \in {s.token, HeaderEntry(s.ctx), env.GITLAB_TOKEN}
            /\ (s.token \in {None, ""} /\ HeaderEntry(s.ctx) \in {None, ""} =>
                  /\ \A k \in 1..Len(s.sent) :
                        s.sent[k].headers.PRIVATE_TOKEN = env.GITLAB_TOKEN
                  /\ (env.GITLAB_TOKEN \in {None, ""} => s.sent = <<>>))

\* An invocation without a token of its own sent the environment's token
\* right after an invocation that was given another token.
C8_Witness ==
    \E i \in Slots :
        /\ last.token = "tokA"
        /\ last.sent = "tokA"
        /\ inv[i].token = None
        /\ HeaderEntry(inv[i].ctx) = None
        /\ inv[i].sent # <<>>
        /\ inv[i].sent[1].headers.PRIVATE_TOKEN = "tokE"

\* C9: whenever the dispatcher returns an error value to a tool, the tool
\* returns a text that contains the dispatcher's message and has done nothing
\* else: no formatting of fields, no directory, no git clone.
C9_ErrorPassedThrough ==
    \A i \in Slots :
        LET s == inv[i] IN
        s.tool \in ToolNames /\ IsErrorValue(s.result) =>
            /\ s.pc = "returned"
            /\ s.path = "error"
            /\ \E k \in 1..Len(s.ret) : s.ret[k] = s.result.error
            /\ s.effects = <<>>
            /\ s.cloned = <<>> /\ s.failed = <<>>

\* The group lookup of clone_group_repositories was answered by an error status.
C9_Witness ==
    \E i \in Slots :
        /\ inv[i].tool = "clone_group_repositories"
        /\ inv[i].http = "HTTPStatusError"
        /\ inv[i].ret = <<"Error getting group projects: ", "HTTPStatusError">>

\* C10: started with an HTTP transport, the server listens on the host and
\* port of --host and --port, on localhost:8000 when they are omitted.
C10_ListensOnGivenAddress ==
    server.phase = "running" /\ server.args.transport \in {"sse", "streamable-http"} =>
        server.listen = {[host |-> server.args.host, port |-> server.args.port]}

\* C11: clone_group_repositories clones all repositories of the group: the
\* list its loop runs over holds every project of the group, whatever the size
\* of the group, and at its return a git clone was attempted for each of them.
C11_ClonesWholeGroup ==
    \A i \in Slots :
        LET s == inv[i] IN
        s.tool = "clone_group_repositories" =>
            /\ (s.pc = "git" => s.n = s.group)
            /\ (s.pc = "returned" /\ s.path = "cloned" =>
                    {e.k : e \in {s.effects[j] : j \in 1..Len(s.effects)}} \ {0}
                        = 1..s.group)

\* The git processes an invocation has started, in the order of their start.
GitClones(s) == SelectSeq(s.effects, LAMBDA e : e.op = "git clone")

\* The number of git processes of an invocation that have ended: exited,
\* timed out or failed to start.
GitEnded(s) == Len(s.cloned) + Len(s.failed)

\* C12: the clone tools wait on git.  The clones start in the order of the
\* project list; while a tool is in subprocess.run exactly one of its git
\* processes has not ended, so clone k+1 starts only after clone k has exited,
\* timed out or failed to start; and a tool that is over has no git process
\* left, clone_group_repositories having gone through the whole list.
C12_WaitsOnGit ==
    \A i \in Slots :
        LET s == inv[i] IN
        s.tool \in {"clone_repository", "clone_group_repositories"} =>
            /\ \A j \in 1..Len(GitClones(s)) : GitClones(s)[j].k = j
            /\ (s.pc = "git" => Len(GitClones(s)) = GitEnded(s) + 1)
            /\ (s.pc \in {"returned", "raised"} => Len(GitClones(s)) = GitEnded(s))
            /\ (s.pc = "returned" /\ s.path \in {"cloned", "git_error"} =>
                    GitEnded(s) = s.n /\ s.n >= 1)

\* The second clone of a group runs after the first one timed out.
C12_Witness ==
    \E i \in Slots :
        /\ inv[i].tool = "clone_group_repositories"
        /\ inv[i].pc = "git"
        /\ inv[i].k = 2
        /\ inv[i].failed = <<1>>
        /\ Len(GitClones(inv[i])) = 2

\* C13: for list_projects, list_groups and list_group_projects the per_page
\* value of the request that was sent is the argument when the argument is at
\* most 100 and 100 otherwise, so it never exceeds 100.
C13_PerPageCapped ==
    \A i \in Slots :
        LET s == inv[i] IN
        s.tool \in {"list_projects", "list_groups", "list_group_projects"} =>
            \A j \in 1..Len(s.sent) :
                LET sent_per_page == s.sent[j].url[3][3] IN
                /\ Len(sent_per_page) = 1
                /\ sent_per_page[1] = (IF s.per_page <= 100 THEN s.per_page ELSE 100)
                /\ sent_per_page[1] <= 100

\* A request of list_groups called with per_page above the maximum.
C13_Witness ==
    \E i \in Slots :
        /\ inv[i].tool = "list_groups"
        /\ inv[i].per_page = 1000
        /\ Len(inv[i].sent) = 1
        /\ inv[i].sent[1].url[3][3] = <<100>>

\* The number of times k occurs in a list.
Occurrences(list, k) == Cardinality({j \in 1..Len(list) : list[j] = k})

\* C14: in clone_group_repositories every project whose clone has ended is in
\* exactly one of the lists cloned and failed, in cloned iff git exited with
\* code 0; once the loop has started the tool ends by returning the result
\* message, and then every project of the list has been processed and
\* len(cloned) + len(failed) is the number of projects.
C14_EveryProjectClassified ==
    \A i \in Slots :
        LET s == inv[i] IN
        s.tool = "clone_group_repositories" =>
            /\ \A k \in 1..Len(s.exits) :
                   /\ Occurrences(s.cloned, k) + Occurrences(s.failed, k) = 1
                   /\ Occurrences(s.cloned, k) = 1 <=> s.exits[k] = "exit0"
            /\ Len(s.cloned) + Len(s.failed) = Len(s.exits)
            /\ (s.pc = "git" => Len(s.exits) = s.k - 1)
            /\ (Len(GitClones(s)) > 0 /\ s.pc # "git" =>
                   /\ s.pc = "returned"
                   /\ Len(s.exits) = s.result.len
                   /\ Len(s.cloned) + Len(s.failed) = s.result.len)

\* A group of two projects whose first clone timed out and whose second clone
\* succeeded.
C14_Witness ==
    \E i \in Slots :
        /\ inv[i].tool = "clone_group_repositories"
        /\ inv[i].pc = "returned"
        /\ inv[i].exits = <<"TimeoutExpired", "exit0">>
        /\ inv[i].cloned = <<2>>
        /\ inv[i].failed = <<1>>

\* C15: in clone_repository and clone_group_repositories the credential put
\* into an HTTPS clone URL is the credential the dispatcher sent with the API
\* request of the same invocation, the first non-empty one of token argument,
\* request header and environment variable.
C15_CloneCredentialIsRequestCredential ==
    \A i \in Slots :
        LET s == inv[i] IN
        s.tool \in {"clone_repository", "clone_group_repositories"} =>
            \A j \in 1..Len(GitClones(s)) :
                GitClones(s)[j].url.scheme = "https" =>
                    /\ Len(s.sent) = 1
                    /\ GitClones(s)[j].url.cred = s.sent[1].headers.PRIVATE_TOKEN

\* The access tokens an invocation has to do with.
Secrets(s) == {s.token, s.ctx.GITLAB_TOKEN, env.GITLAB_TOKEN} \ {None, ""}

\* C16: the text clone_repository and clone_group_repositories return has no
\* access token in it, whatever the outcome of the API request and of git.
C16_NoTokenInReturn ==
    \A i \in Slots :
        LET s == inv[i] IN
        s.tool \in {"clone_repository", "clone_group_repositories"} /\ s.pc = "returned" =>
            \A j \in 1..Len(s.ret) : s.ret[j] \notin Secrets(s)

\* C17: the URL clone_repository passes to git.  With use_ssh it is the ssh URL
\* of the project without a credential; without use_ssh it is the project's
\* http_url_to_repo, carrying a credential iff it is an https URL and the
\* token argument or else the environment variable is non-empty, and the
\* credential is then that token.
C17_TokenOnlyInHttpsUrl ==
    \A i \in Slots :
        LET s == inv[i] IN
        s.tool = "clone_repository" =>
            \A j \in 1..Len(GitClones(s)) :
                LET url == GitClones(s)[j].url
                    tok == IF s.token \notin {None, ""} THEN s.token ELSE env.GITLAB_TOKEN
                IN  IF s.use_ssh
                    THEN url = [scheme |-> "ssh", cred |-> None]
                    ELSE /\ url.scheme \in {"https", "http"}
                         /\ url.cred = (IF url.scheme = "https" /\ tok \notin {None, ""}
                                        THEN tok ELSE None)

\* git runs on an http:// URL that was left as it is although a token was given.
C17_Witness ==
    \E i \in Slots :
        /\ inv[i].tool = "clone_repository"
        /\ inv[i].pc = "git"
        /\ ~inv[i].use_ssh
        /\ inv[i].token = "tokA"
        /\ GitClones(inv[i]) = <<GitClone([scheme |-> "http", cred |-> None], 1)>>

\* C18: once clone_repository has started git it ends by returning a text,
\* never by an exception, and the text is the one of the outcome of git: the
\* success message with the local path for exit code 0, 'Error cloning
\* repository: ' and git's stderr for another exit code, the fixed message of
\* the timeout, the fixed message of the missing git command, and 'Error
\* cloning repository: ' with the exception's message for anything else.
C18_GitOutcomeBecomesText ==
    \A i \in Slots :
        LET s == inv[i] IN
        s.tool = "clone_repository" /\ Len(GitClones(s)) > 0 =>
            /\ s.pc \in {"git", "returned"}
            /\ (s.pc = "git" <=> s.exits = <<>>)
            /\ (s.pc = "returned" =>
                   /\ Len(s.exits) = 1
                   /\ s.exits[1] = "exit0" =>
                          s.ret = <<"Repository cloned successfully to: ", "local_path">>
                   /\ s.exits[1] = "nonzero" =>
                          s.ret = <<"Error cloning repository: ", "stderr">>
                   /\ s.exits[1] = "TimeoutExpired" =>
                          s.ret = <<"Error: Clone operation timed out (5 minutes)">>
                   /\ s.exits[1] = "FileNotFoundError" =>
                          s.ret = <<"Error: Git command not found. Please install Git.">>
                   /\ s.exits[1] \notin {"exit0", "nonzero", "TimeoutExpired",
                                         "FileNotFoundError"} =>
                          s.ret = <<"Error cloning repository: ", s.exits[1]>>)

\* clone_repository has returned the timeout message after git ran over time.
C18_Witness ==
    \E i \in Slots :
        /\ inv[i].tool = "clone_repository"
        /\ inv[i].pc = "returned"
        /\ inv[i].exits = <<"TimeoutExpired">>
        /\ inv[i].ret = <<"Error: Clone operation timed out (5 minutes)">>

\* C19: a tool invocation that is over has returned a text, whatever the
\* dispatcher gave it: an error value, the marker of the empty body, an
\* object with or without the fields the tool formats, or a list.
C19_AlwaysReturnsText ==
    \A i \in Slots :
        LET s == inv[i] IN
        s.tool \in ToolNames /\ s.pc \notin {"idle", "await_http", "git"} =>
            s.pc = "returned" /\ s.ret # <<>>

\* C20: a tool leaves by the return of its error check, with its error text,
\* exactly when the dispatcher failed: no token to send, or the HTTP step
\* failed.  A request that was answered successfully is not reported as an
\* error, whatever keys the JSON object of the answer has.
C20_ErrorIffDispatcherFailed ==
    \A i \in Slots :
        LET s == inv[i] IN
        s.tool \in ToolNames /\ s.pc \in {"git", "returned", "raised"} =>
            (s.path = "error" <=> (s.sent = <<>> \/ s.http \in Failures))

\* C21: with two invocations interleaved at the awaits of their client calls,
\* the request of each carries the token resolved from its own token
\* argument, its own request headers and the environment, the URL of its own
\* endpoint, its own verb and no body but its own.
C21_RequestOfItsOwnInvocation ==
    \A i \in DOMAIN inv :
        LET s == inv[i] IN
        \A k \in 1..Len(s.sent) :
            /\ s.sent[k].headers.PRIVATE_TOKEN = Winner(s)
            /\ s.sent[k].url = <<IF env.GITLAB_URL = None THEN "https://gitlab.com"
                                                          ELSE env.GITLAB_URL,
                                 "/api/v4", s.endpoint>>
            /\ s.sent[k].verb = s.method
            /\ s.sent[k].json \in {s.data, NoData}

\* Two requests are in flight at once, of different tools and with different
\* tokens, the second one sent while the first one was awaited.
C21_Witness ==
    /\ DOMAIN inv = Coroutines
    /\ inv[1].pc = "await_http" /\ inv[2].pc = "await_http"
    /\ inv[1].tool = "create_project" /\ inv[2].tool = "delete_file"
    /\ inv[1].sent[1].headers.PRIVATE_TOKEN = "tokA"
    /\ inv[2].sent[1].headers.PRIVATE_TOKEN = "tokH"

\* C22: while an invocation of clone_repository or clone_group_repositories
\* is in subprocess.run, every step of the server is a step of that invocation:
\* no other invocation starts, sends a request, gets its response or returns.
C22_GitBlocksTheServer ==
    [][\A i \in DOMAIN inv :
          inv[i].pc = "git" => \A j \in DOMAIN inv \ {i} : inv'[j] = inv[j]]_vars

\* The second project of a group is being cloned while the request of another
\* invocation, sent before the clones began, waits for the event loop.
C22_Witness ==
    /\ DOMAIN inv = Coroutines
    /\ \E i \in Coroutines, j \in Coroutines :
          /\ inv[i].tool = "clone_group_repositories"
          /\ inv[i].pc = "git"
          /\ inv[i].k = 2
          /\ inv[j].pc = "await_http"

====
